---- MODULE Spec2Model ----
(***************************************************************************)
(* Revis: the session/run store (store/sqlite.py), the loop, resume and    *)
(* stop commands (cli.py) and the orchestrator (loop.py RevisLoop), with   *)
(* the detached training session of the executor (executor/local.py,       *)
(* executor/ssh.py).                                                       *)
(*                                                                         *)
(* A process is one invocation of `revis loop` or `revis resume`.  Its     *)
(* position in the code is procs[p].pc:                                    *)
(*   unborn        not started yet                                         *)
(*   cli_name_ok   loop: passed the name-conflict check (cli.py 265)       *)
(*   cli_run_ok    loop: passed the running-session check (cli.py 271)     *)
(*   top           _run_loop: at the head of `while True` (loop.py 234)    *)
(*   syncing       iteration counted, before sync_code (loop.py 254-259)   *)
(*   launching     run record created, before launch (loop.py 266-297)     *)
(*   waiting       blocked in executor.wait (loop.py 302)                  *)
(*   waited        wait returned, result in procs[p].result (loop.py 305)  *)
(*   collected     metrics logged, before the target check (loop.py 418)   *)
(*   guarded       guardrails evaluated, before the plateau check (450)    *)
(*   proposing     in run_agent, propose step (loop.py 500)                *)
(*   fixing        in run_agent, called by _run_agent_for_fix (loop.py 645)*)
(*   done          _terminate has run; the command has returned or raised  *)
(*   refused       the command printed an error and exited                 *)
(*   killed        the process was killed by a signal it cannot catch      *)
(*                                                                         *)
(* Of the tables keyed by run the model keeps metrics (a field of the run  *)
(* row) and suggestions; traces, decisions, artifacts and params are       *)
(* written and deleted per run like metrics and are left out.              *)
(***************************************************************************)
EXTENDS Integers, Sequences, FiniteSets, TLC

\* ---------------------------------------------------------------- bounds
MaxProcs == 2       \* commands the user issues in one behaviour
MaxIter == 3        \* cap on a session's iteration_count
MaxBudget == 2      \* largest --budget value
MaxTime == 2        \* largest elapsed time an orchestrator reads off the clock
MaxRoundTrips == 2  \* largest max_agent_iterations
MaxHistory == 4     \* longest metric history, in runs
MaxPlateauRuns == 2 \* largest guardrails plateau_runs
MaxCost == 7        \* largest total cost of one LLMClient, in cost units

\* ------------------------------------------------------ program constants
DefaultRetryBudget == 3

\* Numbers as the orchestrator meets them: the finite metric values 0 .. 2, and
\* three values outside them.  Absent is Python's None where a number may stand
\* (no target configured, primary metric not among the collected metrics).
Absent == -1
NaN == -2
Infinity == 9
MetricValues == {Absent, NaN, Infinity} \cup (0 .. 2)

\* config.metrics.target and config.metrics.minimize, as load_config returns them
Configs == {[target |-> Absent, minimize |-> TRUE],
            [target |-> 1, minimize |-> TRUE],
            [target |-> 1, minimize |-> FALSE]}

\* The tools of the agent by what they leave in the tool executor
Tools == {"read_file", "modify_config", "set_next_command", "request_code_change"}

\* What the world outside the orchestrator can hand it: the configuration file,
\* the primary metric a training run reports, the tools the agent calls, and
\* whether the metric history can set off detect_divergence / detect_plateau.
\* SpecIter follows one loop command under AllInputs; Spec and SpecRace follow
\* several commands under one configuration, two metric values and one tool.
AllInputs ==
    [configs |-> Configs, values |-> MetricValues, tools |-> Tools,
     fix_tools |-> Tools, diverged |-> BOOLEAN, plateau |-> BOOLEAN]
FewInputs ==
    [configs |-> {[target |-> 1, minimize |-> TRUE]}, values |-> {0, 2},
     tools |-> {"set_next_command"}, fix_tools |-> {"read_file"},
     diverged |-> {FALSE}, plateau |-> BOOLEAN]

\* Session names.  A name is unique among the rows of the sessions table, so the
\* names bound the table.  Spec follows one name through loop, stop, kill and
\* resume; SpecRace starts two loop commands, with equal or different names.
Names == {"a"}
RaceNames == {"a", "b"}
SessionIds == 1 .. Cardinality(RaceNames)
BudgetTypes == {"time", "runs"}
Pids == 1 .. MaxProcs
None == "none"

VARIABLES
    sessions,       \* the sessions table: Seq of rows, a session's id is its index
    runs,           \* the runs table: Seq of rows
    stop_signal,    \* .revis/stop_signal exists
    procs,          \* the loop / resume processes
    tmux,           \* tmux[sid]: the detached session revis-<sid> exists
    exit_file,      \* <work_dir>/.revis_exit: the EXIT_CODE lines appended to it
    executor_type,  \* config.executor.type
    suggestions,    \* the suggestions table: a set of rows
    branch,         \* the branch checked out in the repository
    tool_executor,  \* the ToolExecutor of the agent and the repository files it sees
    llm,            \* one LLMClient.complete request
    agent,          \* one run_agent call: its messages and its AgentResult
    guardrail,      \* the metric history of a session and the plateau detector's answer
    cost            \* sessions.llm_cost_usd of a session and total_cost of its LLMClient

vars == <<sessions, runs, stop_signal, procs, tmux, exit_file, executor_type, suggestions, branch,
          tool_executor, llm, agent, guardrail, cost>>

\* ------------------------------------------------------------------ store

\* SQLiteRunStore.session_name_exists
session_name_exists(ss, name) ==
    \E i \in 1 .. Len(ss) : ss[i].name = name

RunningIds(ss) ==
    {i \in 1 .. Len(ss) : ss[i].status = "running"}

\* SQLiteRunStore.get_running_session: the id of the running row started last
\* (ORDER BY started_at DESC LIMIT 1; rows are appended in start order), or 0.
get_running_session(ss) ==
    IF RunningIds(ss) = {} THEN 0
    ELSE CHOOSE i \in RunningIds(ss) : \A j \in RunningIds(ss) : j <= i

\* SQLiteRunStore.get_session_by_name: the id of the row, or 0
get_session_by_name(ss, name) ==
    IF session_name_exists(ss, name)
    THEN CHOOSE i \in 1 .. Len(ss) : ss[i].name = name
    ELSE 0

\* a sessions table whose name column has no UNIQUE constraint
no_unique_constraint(ss, name) == FALSE

\* sessions.name is UNIQUE: an INSERT of a name some row holds raises IntegrityError
unique_violation(ss, name) ==
    \E i \in 1 .. Len(ss) : ss[i].name = name

\* SQLiteRunStore.create_session: the INSERT, with the columns' defaults
create_session(ss, name, btype, bvalue, pid) ==
    Append(ss, [name |-> name,
                status |-> "running",
                termination_reason |-> None,
                budget_type |-> btype,
                budget_value |-> bvalue,
                budget_used |-> 0,
                iteration_count |-> 0,
                retry_budget |-> DefaultRetryBudget,
                pid |-> pid,
                ended_at |-> FALSE])

\* SQLiteRunStore.end_session: the status a termination reason maps to
EndStatus(reason) ==
    IF reason = "target_achieved" THEN "completed"
    ELSE IF reason = "error" THEN "failed"
    ELSE "stopped"

\* end_session without the ended_at column in its UPDATE
end_session_without_ended_at(ss, sid, reason) ==
    [ss EXCEPT ![sid].status = EndStatus(reason),
               ![sid].termination_reason = reason]

\* SQLiteRunStore.end_session
end_session(ss, sid, reason) ==
    [ss EXCEPT ![sid].status = EndStatus(reason),
               ![sid].termination_reason = reason,
               ![sid].ended_at = TRUE]

\* SQLiteRunStore.update_session_budget
update_session_budget(ss, sid, used) ==
    [ss EXCEPT ![sid].budget_used = used]

\* SQLiteRunStore.update_session_retry_budget
update_session_retry_budget(ss, sid, retry) ==
    [ss EXCEPT ![sid].retry_budget = retry]

\* SQLiteRunStore.increment_iteration
increment_iteration(ss, sid) ==
    [ss EXCEPT ![sid].iteration_count = @ + 1]

\* SQLiteRunStore.create_run
create_run(rs, sid, iteration) ==
    Append(rs, [session_id |-> sid,
                iteration_number |-> iteration,
                status |-> "running",
                metrics |-> FALSE,
                decision |-> None])

\* SQLiteRunStore.set_run_status
set_run_status(rs, rid, status) ==
    [rs EXCEPT ![rid].status = status]

\* SQLiteRunStore.log_metrics: one row of the metrics table for each metric of the
\* collected set (the run row's metrics field: some metrics row references it)
log_metrics(rs, rid, primary_value) ==
    [rs EXCEPT ![rid].metrics = primary_value /= Absent]

\* SQLiteRunStore.create_suggestion
create_suggestion(sg, sid, rid) ==
    sg \cup {[session_id |-> sid, run_id |-> rid]}

\* A row that a DELETE removed.  The index of a row is its id and ids are never
\* used again, so the place of a removed row stays taken.
DeletedSession ==
    [name |-> None, status |-> "deleted", termination_reason |-> None,
     budget_type |-> None, budget_value |-> 0, budget_used |-> 0,
     iteration_count |-> 0, retry_budget |-> 0, pid |-> 0, ended_at |-> FALSE]
DeletedRun ==
    [session_id |-> 0, iteration_number |-> 0, status |-> "deleted", metrics |-> FALSE,
     decision |-> None]

\* SQLiteRunStore.delete_session, the sessions table after it
delete_session(ss, sid) ==
    [ss EXCEPT ![sid] = DeletedSession]

\* SQLiteRunStore.delete_session, the runs table after it: the metrics (traces,
\* decisions, artifacts, params) rows of each run of the session, then its runs
\* SQLiteRunStore.attach_decision: the Decision row of a run, by its action type
attach_decision(rs, run_id, action_type) ==
    [rs EXCEPT ![run_id].decision = action_type]

delete_session_runs(rs, sid) ==
    [i \in 1 .. Len(rs) |-> IF rs[i].session_id = sid THEN DeletedRun ELSE rs[i]]

\* SQLiteRunStore.delete_session, the suggestions table after it: no statement of
\* delete_session names the table, and the connection never turns foreign keys on
delete_session_suggestions(sg, sid) == sg

\* Budget.remaining
remaining(value, used) ==
    IF value - used > 0 THEN value - used ELSE 0

\* ---------------------------------------------------------------- processes

\* The locals of one command: its arguments and configuration, the session it
\* drives, and the variables of _run_loop (result: the ExitResult; primary: the
\* primary metric of eval_result; critical, plateau: what guardrail_results hold;
\* made_tool_calls, changes: run_agent's tool_calls_count > 0 and the change
\* requests the tool executor has recorded since its reset; base_branch: the
\* branch _terminate checks out), and start_branch, the branch that was checked
\* out when the command was invoked.
Unborn ==
    [pc |-> "unborn", cmd |-> None, name |-> None, btype |-> None, bvalue |-> 0,
     target |-> Absent, minimize |-> TRUE,
     sid |-> 0, iteration |-> 0, entry_iteration |-> 0, elapsed |-> 0,
     run_id |-> 0, result |-> None, primary |-> Absent,
     critical |-> FALSE, plateau |-> FALSE,
     made_tool_calls |-> FALSE, changes |-> {}, reason |-> None,
     start_branch |-> None, base_branch |-> None, train_cmd |-> None,
     run_output_dir |-> 0]

\* A process that ended before the latest command was issued
Gone == [Unborn EXCEPT !.pc = "gone"]

LoopPcs == {"top", "syncing", "launching", "waiting", "waited",
            "collected", "guarded", "proposing", "fixing"}
AlivePcs == LoopPcs \cup {"cli_name_ok", "cli_run_ok"}

Alive(p) == procs[p].pc \in AlivePcs

\* SQLiteRunStore._process_exists
process_exists(pid) == Alive(pid)

\* SQLiteRunStore.get_orphaned_sessions: row i is running and its holder is dead
Orphaned(ss, i) ==
    ss[i].status = "running" /\ ~process_exists(ss[i].pid)

\* ------------------------------------------------------------------ agent tools

MaxDeny == 1        \* deny patterns in context.deny
MaxChanges == 2     \* cap on the length of config_changes

\* Paths and patterns are sequences of symbols.  A symbol is a character; the
\* extension of a file name is written as one symbol.
Extensions == {".yaml", ".yml", ".json", ".toml", ".txt"}

\* The repository: c.yaml, c.toml, c.txt and the directory s with s/k.yaml.
\* Every file holds one key, lr, with an integer value.
RepoFiles ==
    [f \in {<<"c", ".yaml">>, <<"c", ".toml">>, <<"c", ".txt">>,
            <<"s", "/", "k", ".yaml">>} |-> 1]
RepoDirs == {<< >>, <<"s">>}

\* What the agent can pass as a path, m.yaml being a path that does not exist
ToolPaths == DOMAIN RepoFiles \cup RepoDirs \cup {<<"m", ".yaml">>}

\* Patterns the user can list under context.deny:
\* s, s/*, *.toml, **/k.yaml, c.yaml
DenyPatterns ==
    {<<"s">>, <<"s", "/", "*">>, <<"*", ".toml">>,
     <<"*", "*", "/", "k", ".yaml">>, <<"c", ".yaml">>}

RECURSIVE fnmatch(_, _)
\* fnmatch.fnmatch(name, pat) for patterns of literals and *
fnmatch(name, pat) ==
    IF pat = << >> THEN name = << >>
    ELSE IF Head(pat) = "*"
    THEN fnmatch(name, Tail(pat)) \/ (name /= << >> /\ fnmatch(Tail(name), pat))
    ELSE name /= << >> /\ Head(name) = Head(pat) /\ fnmatch(Tail(name), Tail(pat))

\* Path(path).name
PathName(path) ==
    LET slashes == {i \in 1 .. Len(path) : path[i] = "/"} IN
    IF slashes = {} THEN path
    ELSE SubSeq(path, (CHOOSE i \in slashes : \A j \in slashes : j <= i) + 1, Len(path))

\* Path(path).suffix
PathSuffix(path) ==
    IF path /= << >> /\ path[Len(path)] \in Extensions THEN path[Len(path)] ELSE ""

RECURSIVE regex_pattern(_)
\* pattern.replace("**", ".*").replace("*", "[^/]*"): the second replace also
\* rewrites the * of ".*"
regex_pattern(pat) ==
    IF pat = << >> THEN << >>
    ELSE IF Len(pat) >= 2 /\ pat[1] = "*" /\ pat[2] = "*"
    THEN <<".", "[^/]*">> \o regex_pattern(SubSeq(pat, 3, Len(pat)))
    ELSE IF pat[1] = "*" THEN <<"[^/]*">> \o regex_pattern(Tail(pat))
    ELSE <<pat[1]>> \o regex_pattern(Tail(pat))

RECURSIVE re_match(_, _)
\* re.match(regex, path): the regex matches a prefix of the path
re_match(regex, path) ==
    IF regex = << >> THEN TRUE
    ELSE IF Head(regex) = "."
    THEN path /= << >> /\ re_match(Tail(regex), Tail(path))
    ELSE IF Head(regex) = "[^/]*"
    THEN re_match(Tail(regex), path)
            \/ (path /= << >> /\ Head(path) /= "/" /\ re_match(regex, Tail(path)))
    ELSE path /= << >> /\ Head(path) = Head(regex) /\ re_match(Tail(regex), Tail(path))

HasDoubleStar(pat) == \E i \in 1 .. Len(pat) - 1 : pat[i] = "*" /\ pat[i + 1] = "*"

\* ToolExecutor.is_denied
is_denied(deny_patterns, path) ==
    \E pattern \in deny_patterns :
        \/ fnmatch(path, pattern)
        \/ fnmatch(PathName(path), pattern)
        \/ HasDoubleStar(pattern) /\ re_match(regex_pattern(pattern), path)

\* full_path.exists() / is_file() / is_dir()
PathExists(files, path) == path \in DOMAIN files \/ path \in RepoDirs
IsFile(files, path) == path \in DOMAIN files
IsDir(path) == path \in RepoDirs

\* item is below the directory dir: rglob("*") when recursive, iterdir() when not
IsBelow(item, dir, recursive) ==
    /\ item /= << >>
    /\ IF dir = << >> THEN TRUE
       ELSE /\ Len(item) > Len(dir) + 1
            /\ SubSeq(item, 1, Len(dir)) = dir
            /\ item[Len(dir) + 1] = "/"
    /\ recursive \/
         LET from == IF dir = << >> THEN 1 ELSE Len(dir) + 2 IN
         \A i \in from .. Len(item) : item[i] /= "/"

\* A ToolExecutor before the agent's first call
NewToolExecutor(deny_patterns, tomllib) ==
    [deny_patterns |-> deny_patterns, tomllib |-> tomllib, files |-> RepoFiles,
     config_changes |-> << >>, tool |-> None, path |-> << >>,
     answer |-> None, listing |-> {}]

NoToolExecutor == NewToolExecutor({}, TRUE)

\* The answer of a tool, on the executor te
Answered(te, tool, path, answer) ==
    [te EXCEPT !.tool = tool, !.path = path, !.answer = answer, !.listing = {}]

\* ToolExecutor.tool_read_file
tool_read_file(te, path) ==
    IF is_denied(te.deny_patterns, path) THEN Answered(te, "read_file", path, "Access denied")
    ELSE IF ~PathExists(te.files, path) THEN Answered(te, "read_file", path, "File not found")
    ELSE IF ~IsFile(te.files, path) THEN Answered(te, "read_file", path, "Not a file")
    ELSE Answered(te, "read_file", path, "content")

\* ToolExecutor.tool_list_directory
tool_list_directory(te, path, recursive) ==
    IF ~PathExists(te.files, path)
    THEN Answered(te, "list_directory", path, "Directory not found")
    ELSE IF ~IsDir(path)
    THEN Answered(te, "list_directory", path, "Not a directory")
    ELSE LET results == {item \in DOMAIN te.files \cup RepoDirs :
                            /\ IsBelow(item, path, recursive)
                            /\ ~is_denied(te.deny_patterns, item)}
         IN  IF results = {}
             THEN Answered(te, "list_directory", path, "(empty)")
             ELSE [Answered(te, "list_directory", path, "listing")
                      EXCEPT !.listing = results]

\* ToolExecutor._parse_value for an int target: int(value), which raises
\* ValueError on "x"
ParsableInts == {"1", "2"}
parse_value(value) == IF value = "1" THEN 1 ELSE 2

SupportedSuffixes == {".yaml", ".yml", ".json", ".toml"}

\* ToolExecutor.tool_modify_config
tool_modify_config(te, path, key, value) ==
    IF is_denied(te.deny_patterns, path)
    THEN Answered(te, "modify_config", path, "Access denied")
    ELSE IF ~PathExists(te.files, path)
    THEN Answered(te, "modify_config", path, "Config file not found")
    ELSE IF PathSuffix(path) \notin SupportedSuffixes
    THEN Answered(te, "modify_config", path, "Unsupported config format")
    ELSE IF PathSuffix(path) = ".toml" /\ ~te.tomllib
    THEN Answered(te, "modify_config", path, "TOML support requires Python 3.11+")
    ELSE IF key /= "lr"
    THEN Answered(te, "modify_config", path, "Key not found")
    ELSE IF value \notin ParsableInts
    THEN Answered(te, "modify_config", path, "Error modifying config")
    ELSE LET change == [path |-> path, key |-> key, old_value |-> te.files[path],
                        new_value |-> parse_value(value)]
             recorded == [te EXCEPT !.config_changes = Append(@, change)]
         IN  IF PathSuffix(path) = ".toml"
             THEN Answered(recorded, "modify_config", path, "Writing TOML not supported")
             ELSE [Answered(recorded, "modify_config", path, "Modified")
                      EXCEPT !.files[path] = parse_value(value)]

\* RevisLoop._run_loop: has_config_changes
has_config_changes(te) == Len(te.config_changes) > 0

\* ------------------------------------------------------------------ model client

MaxModels == 3      \* the primary model and its fallbacks

\* litellm exceptions a completion can raise
TransientErrors == {"RateLimitError", "APIConnectionError", "ServiceUnavailableError",
                    "APIError"}
FatalErrors == {"AuthenticationError", "BadRequestError"}

\* an except clause that takes every error
CaughtAlways(error) == TRUE

\* LLMClient.complete: except (RateLimitError, APIConnectionError,
\* ServiceUnavailableError, APIError)
Caught(error) == error \in TransientErrors

\* LLMClient.complete: is_fallback = i > 0
is_fallback(i) == i > 0

\* A request over models_to_try = [config.model] + config.fallback, n models
NewRequest(n) ==
    [models |-> n, i |-> 0, tried |-> << >>, status |-> "trying",
     model_used |-> Absent, used_fallback |-> FALSE]

NoRequest == [NewRequest(1) EXCEPT !.status = "idle"]

\* ---------------------------------------------- agent loop, guardrails, cost

\* The texts a message can hold, by the summary lines in them
Texts == {{}, {"ESCALATE"}, {"RATIONALE", "SIGNIFICANT"}}

\* No run_agent call is under way
NoAgent ==
    [status |-> "idle", max_iterations |-> 0, iteration |-> 0, messages |-> << >>,
     tool_calls_count |-> 0, result |-> {}]

\* No session's metric history is being followed
NoGuardrail ==
    [status |-> "idle", threshold |-> [num |-> 0, den |-> 1], n_runs |-> 1,
     minimize |-> TRUE, stored |-> << >>, history |-> << >>, triggered |-> FALSE]

\* No session's cost is being followed
NoCost == [status |-> "idle", llm_cost_usd |-> 0, total_cost |-> 0]


\* ------------------------------------------------------------------ processes

InitStore ==
    /\ sessions = << >>
    /\ runs = << >>
    /\ stop_signal = FALSE
    /\ procs = [p \in Pids |-> Unborn]
    /\ tmux = [s \in SessionIds |-> FALSE]
    /\ exit_file = << >>
    /\ executor_type \in {"local", "ssh"}
    /\ suggestions = {}

\* The repository as the user has it when the first command is issued
UserBranches == {"main", "dev"}

Init ==
    /\ InitStore /\ branch = "main" /\ tool_executor = NoToolExecutor /\ llm = NoRequest
    /\ agent = NoAgent /\ guardrail = NoGuardrail /\ cost = NoCost

InitAnyBranch ==
    /\ InitStore /\ branch \in UserBranches
    /\ tool_executor = NoToolExecutor /\ llm = NoRequest
    /\ agent = NoAgent /\ guardrail = NoGuardrail /\ cost = NoCost

\* ------------------------------------------------------------ orchestrator

\* RevisLoop._terminate, seen from the process: the command returns (or re-raises)
Terminated(pr, reason) ==
    [Unborn EXCEPT !.pc = "done", !.cmd = pr.cmd, !.sid = pr.sid, !.reason = reason]

\* RevisLoop._resume: base_branch = "main"
DefaultBaseBranch == "main"

\* RevisLoop.run: branch_name = f"revis/{name}"
SessionBranch(name) == "revis/" \o name

\* RevisLoop._terminate, "Checkout back to base branch" (with the stash and the
\* second checkout when the first fails): done by the steps of command p that
\* end in _terminate, and by no other.
TerminateCheckout(p) ==
    branch' = IF procs'[p].pc = "done" THEN procs[p].base_branch ELSE branch

\* RevisLoop.run / _resume, `except Exception`: _terminate with error and re-raise;
\* the command dies with the exception
Raised(pr) ==
    [Terminated(pr, "error") EXCEPT !.result = "raised"]

\* The head of the next iteration: the locals of the iteration that ended are dead
NextIteration(pr) ==
    [pr EXCEPT !.pc = "top", !.run_id = 0, !.result = None, !.primary = Absent,
               !.critical = FALSE, !.plateau = FALSE,
               !.made_tool_calls = FALSE, !.changes = {}]

\* The processes when command p starts: the records of ended ones are dropped
Started(p, pr) ==
    [q \in Pids |-> IF q = p THEN pr
                    ELSE IF procs[q].pc \in AlivePcs \cup {"unborn"} THEN procs[q]
                    ELSE Gone]

\* a preemption check that does not look at the stop signal
StopNeverRequested(sig) == FALSE

\* RevisLoop._run_loop, "Check stop signal"
StopRequested(sig) == sig

\* the run-budget test off by one: if iteration > budget.value
BudgetExhaustedAbove(btype, bvalue, iteration, elapsed) ==
    IF btype = "time" THEN elapsed >= bvalue
    ELSE iteration > bvalue

\* RevisLoop._run_loop, "Check budget"
BudgetExhausted(btype, bvalue, iteration, elapsed) ==
    IF btype = "time" THEN elapsed >= bvalue
    ELSE iteration >= bvalue

\* RevisLoop._run_loop, the failure paths: new_retry = session.retry_budget - 1
NewRetry(retry) == retry - 1

\* the exhaustion test off by one: if new_retry < 0
RetryExhaustedBelowZero(new_retry) == new_retry < 0

\* RevisLoop._run_loop, the failure paths: if new_retry <= 0
RetryExhausted(new_retry) == new_retry <= 0

\* cli.resume: the statuses it accepts
ResumeAllowed(status) ==
    status /= "running" /\ status /= "completed"

\* cli.loop up to the name-conflict check
StartLoop(p, n, bt, bv, cfg) ==
    /\ procs[p].pc = "unborn"
    /\ \A q \in Pids : q < p => procs[q].pc /= "unborn"
    /\ procs' = Started(p,
                    IF session_name_exists(sessions, n)
                    THEN [Unborn EXCEPT !.cmd = "loop", !.name = n, !.pc = "refused",
                                        !.result = "name_exists"]
                    ELSE [Unborn EXCEPT !.cmd = "loop", !.name = n,
                                        !.btype = bt, !.bvalue = bv,
                                        !.target = cfg.target,
                                        !.minimize = cfg.minimize,
                                        !.start_branch = branch,
                                        !.pc = "cli_name_ok"])
    /\ UNCHANGED <<sessions, runs, stop_signal, tmux, exit_file, executor_type, agent, guardrail, cost, tool_executor, llm, suggestions, branch>>

\* cli.loop, "Check for existing running session"
CliRunningCheck(p) ==
    /\ procs[p].pc = "cli_name_ok"
    /\ LET existing == get_running_session(sessions) IN
         procs' = [procs EXCEPT ![p] =
                    IF existing /= 0
                    THEN [Unborn EXCEPT !.pc = "refused", !.cmd = "loop",
                                        !.name = procs[p].name,
                                        !.result = "already_running"]
                    ELSE [@ EXCEPT !.pc = "cli_run_ok"]]
    /\ UNCHANGED <<sessions, runs, stop_signal, tmux, exit_file, executor_type, agent, guardrail, cost, tool_executor, llm, suggestions, branch>>

\* run_loop, RevisLoop.run up to the call of _run_loop
RunCreate(p) ==
    /\ procs[p].pc = "cli_run_ok"
    /\ stop_signal' = FALSE
    /\ IF unique_violation(sessions, procs[p].name)
       THEN \* the INSERT of create_session raises; run_loop has no handler for it
            /\ procs' = [procs EXCEPT ![p] =
                            [@ EXCEPT !.pc = "refused", !.result = "integrity_error"]]
            /\ UNCHANGED <<sessions, branch>>
       ELSE /\ sessions' = create_session(sessions, procs[p].name, procs[p].btype,
                                          procs[p].bvalue, p)
            /\ procs' = [procs EXCEPT ![p] =
                            [@ EXCEPT !.pc = "top", !.sid = Len(sessions) + 1,
                                      !.iteration = 0, !.entry_iteration = 0,
                                      !.elapsed = 0, !.base_branch = branch,
                                      !.train_cmd = "configured"]]
            /\ branch' = SessionBranch(procs[p].name)
    /\ UNCHANGED <<runs, tmux, exit_file, executor_type, agent, guardrail, cost, tool_executor, llm, suggestions>>

\* cli.resume, resume_loop and RevisLoop._resume up to the call of _run_loop
Resume(p, n, cfg) ==
    /\ procs[p].pc = "unborn"
    /\ \A q \in Pids : q < p => procs[q].pc /= "unborn"
    /\ LET sid == get_session_by_name(sessions, n) IN
       IF sid = 0
       THEN /\ procs' = Started(p,
                    [Unborn EXCEPT !.cmd = "resume", !.name = n, !.pc = "refused",
                                   !.result = "not_found"])
            /\ UNCHANGED <<stop_signal, branch>>
       ELSE IF ~ResumeAllowed(sessions[sid].status)
       THEN /\ procs' = Started(p,
                    [Unborn EXCEPT !.cmd = "resume", !.name = n, !.sid = sid,
                                   !.pc = "refused",
                                   !.result = "already_" \o sessions[sid].status])
            /\ UNCHANGED <<stop_signal, branch>>
       ELSE /\ procs' = Started(p,
                    [Unborn EXCEPT !.cmd = "resume", !.name = n, !.sid = sid, !.pc = "top",
                                   !.target = cfg.target, !.minimize = cfg.minimize,
                                   !.btype = sessions[sid].budget_type,
                                   !.bvalue = remaining(sessions[sid].budget_value,
                                                        sessions[sid].budget_used),
                                   !.iteration = sessions[sid].iteration_count,
                                   !.entry_iteration = sessions[sid].iteration_count,
                                   !.elapsed = 0,
                                   !.start_branch = branch,
                                   !.base_branch = DefaultBaseBranch,
                                   !.train_cmd = "configured"])
            /\ stop_signal' = FALSE
            /\ branch' = SessionBranch(n)
    /\ UNCHANGED <<sessions, runs, tmux, exit_file, executor_type, agent, guardrail, cost, tool_executor, llm, suggestions>>

\* RevisLoop._run_loop: stop check, budget check, iteration += 1, increment_iteration.
\* e is int(time.time() - start_time) as read by this check of a time budget.
PreemptionCheck(p, e) ==
    /\ procs[p].pc = "top"
    /\ IF procs[p].btype = "time" THEN e >= procs[p].elapsed ELSE e = procs[p].elapsed
    /\ LET pr == procs[p]
           s1 == IF pr.btype = "time"
                 THEN update_session_budget(sessions, pr.sid, e)
                 ELSE sessions
       IN
       IF StopRequested(stop_signal)
       THEN /\ e = pr.elapsed
            /\ stop_signal' = FALSE
            /\ sessions' = end_session(sessions, pr.sid, "user_stop")
            /\ procs' = [procs EXCEPT ![p] = Terminated(pr, "user_stop")]
       ELSE IF BudgetExhausted(pr.btype, pr.bvalue, pr.iteration, e)
       THEN /\ sessions' = end_session(s1, pr.sid, "budget_exhausted")
            /\ procs' = [procs EXCEPT ![p] =
                            Terminated([pr EXCEPT !.elapsed = e], "budget_exhausted")]
            /\ UNCHANGED stop_signal
       ELSE /\ sessions[pr.sid].iteration_count < MaxIter
            /\ sessions' = increment_iteration(s1, pr.sid)
            /\ procs' = [procs EXCEPT ![p] =
                            [@ EXCEPT !.pc = "syncing", !.iteration = @ + 1,
                                      !.elapsed = e]]
            /\ UNCHANGED stop_signal
    /\ UNCHANGED <<runs, tmux, exit_file, executor_type, agent, guardrail, cost, tool_executor, llm, suggestions>>
    /\ TerminateCheckout(p)

\* RevisLoop._run_loop: sync_code, create_run.  SSHExecutor.sync_code raises when
\* rsync fails; the exception leaves _run_loop and run/_resume terminate with error.
SyncAndCreateRun(p, sync_ok) ==
    /\ procs[p].pc = "syncing"
    /\ (executor_type = "local") => sync_ok
    /\ LET pr == procs[p] IN
       IF sync_ok
       THEN /\ runs' = create_run(runs, pr.sid, pr.iteration)
            /\ procs' = [procs EXCEPT ![p] =
                            [@ EXCEPT !.pc = "launching", !.run_id = Len(runs) + 1]]
            /\ UNCHANGED sessions
       ELSE /\ sessions' = end_session(sessions, pr.sid, "error")
            /\ procs' = [procs EXCEPT ![p] = Raised(pr)]
            /\ UNCHANGED runs
    /\ UNCHANGED <<stop_signal, tmux, exit_file, executor_type, agent, guardrail, cost, tool_executor, llm, suggestions>>
    /\ TerminateCheckout(p)

\* LocalExecutor.launch / SSHExecutor.launch: what is left of .revis_exit.
\* The local backend unlinks it before creating the session, the remote one does not.
ExitFileAfterLaunch(etype, f) ==
    IF etype = "local" THEN << >> ELSE f

\* RevisLoop._run_loop, the failure paths (launch error, failed run, metrics
\* unavailable): the run is marked failed and the retry budget is decremented; at
\* zero the session ends with retry_exhaustion, otherwise the orchestrator goes on
\* at next_pc ("fixing": _run_agent_for_fix; "top": `continue`).
FailurePath(p, rs, next_pc, result) ==
    LET pr == procs[p]
        new_retry == NewRetry(sessions[pr.sid].retry_budget)
        s1 == update_session_retry_budget(sessions, pr.sid, new_retry)
    IN
    /\ runs' = set_run_status(rs, pr.run_id, "failed")
    /\ IF RetryExhausted(new_retry)
       THEN /\ sessions' = end_session(s1, pr.sid, "retry_exhaustion")
            /\ procs' = [procs EXCEPT ![p] = Terminated(pr, "retry_exhaustion")]
       ELSE /\ sessions' = s1
            /\ procs' = [procs EXCEPT ![p] =
                            IF next_pc = "top" THEN NextIteration(pr)
                            ELSE [pr EXCEPT !.pc = next_pc, !.result = result,
                                            !.made_tool_calls = FALSE, !.changes = {}]]

\* RevisLoop._run_loop: executor.launch; on an exception the handler of loop.py 307-330
Launch(p, launch_ok) ==
    /\ procs[p].pc = "launching"
    /\ IF launch_ok
       THEN /\ tmux' = [tmux EXCEPT ![procs[p].sid] = TRUE]
            /\ exit_file' = ExitFileAfterLaunch(executor_type, exit_file)
            /\ procs' = [procs EXCEPT ![p] = [@ EXCEPT !.pc = "waiting"]]
            /\ UNCHANGED <<sessions, runs>>
       ELSE /\ FailurePath(p, runs, "fixing", "launch_error")
            /\ UNCHANGED <<tmux, exit_file>>
    /\ UNCHANGED <<stop_signal, executor_type, agent, guardrail, cost, tool_executor, llm, suggestions>>
    /\ TerminateCheckout(p)

\* The training command ends: the shell appends EXIT_CODE=<code> to .revis_exit
\* and the tmux session goes away.
TrainingExit(s, code) ==
    /\ tmux[s]
    /\ tmux' = [tmux EXCEPT ![s] = FALSE]
    /\ exit_file' = Append(exit_file, code)
    /\ UNCHANGED <<sessions, runs, stop_signal, procs, executor_type, agent, guardrail, cost, tool_executor, llm, suggestions, branch>>

\* The tmux session is lost without an exit line (killed from outside, host reboot).
TrainingLost(s) ==
    /\ tmux[s]
    /\ tmux' = [tmux EXCEPT ![s] = FALSE]
    /\ UNCHANGED <<sessions, runs, stop_signal, procs, exit_file, executor_type, agent, guardrail, cost, tool_executor, llm, suggestions, branch>>

\* a wait that goes on polling for the sentinel of a session that has ended
WaitResultAwaitsSentinel(is_running, f, timed_out) ==
    IF ~is_running
    THEN IF f /= << >>
         THEN (IF Head(f) = 0 THEN "exit0" ELSE "exit1")
         ELSE "pending"
    ELSE IF timed_out THEN "timeout"
    ELSE "pending"

\* LocalExecutor.wait / SSHExecutor.wait: the ExitResult, as
\* "exit0" | "exit1" | "unavailable" | "timeout" | "pending" (keep polling).
\* timed_out is `time.time() - start_time >= timeout` at this poll.
WaitResult(is_running, f, timed_out) ==
    IF ~is_running
    THEN IF f /= << >>
         THEN (IF Head(f) = 0 THEN "exit0" ELSE "exit1")
         ELSE "unavailable"
    ELSE IF timed_out THEN "timeout"
    ELSE "pending"


\* ExitResult.failed
Failed(result) == result /= "exit0"

\* RevisLoop._run_loop: executor.wait returns
WaitReturn(p, timed_out) ==
    /\ procs[p].pc = "waiting"
    /\ LET pr == procs[p]
           res == WaitResult(tmux[pr.sid], exit_file, timed_out)
       IN
       /\ res /= "pending"
       /\ tmux[pr.sid] \/ ~timed_out
       /\ tmux' = [tmux EXCEPT ![pr.sid] = FALSE]
       /\ exit_file' = IF res \in {"exit0", "exit1"} THEN << >> ELSE exit_file
       /\ procs' = [procs EXCEPT ![p] = [@ EXCEPT !.pc = "waited", !.result = res]]
       \* a result that is not failed: set_run_status(run_id, "completed") comes
       \* before the metrics are looked for
       /\ runs' = IF Failed(res) THEN runs
                  ELSE set_run_status(runs, pr.run_id, "completed")
    /\ UNCHANGED <<sessions, stop_signal, executor_type, agent, guardrail, cost, tool_executor, llm, suggestions, branch>>

\* RevisLoop._run_loop, "Handle run failure", up to the call of _run_agent_for_fix
HandleRunFailure(p) ==
    /\ procs[p].pc = "waited"
    /\ Failed(procs[p].result)
    /\ FailurePath(p, runs, "fixing", "run_failed")
    /\ UNCHANGED <<stop_signal, tmux, exit_file, executor_type, agent, guardrail, cost, tool_executor, llm, suggestions>>
    /\ TerminateCheckout(p)

\* How the collection of the metrics of a run that exited with 0 can end:
\*   "ok"           a metric set was read: the primary metric's value, or Absent
\*                  when the set does not hold it (an eval.json without a
\*                  "metrics" key reads as the empty set: data.get("metrics", {}))
\*   "unavailable"  W&B gave None, or eval.json is missing or is not JSON
\*   "exception"    any other exception of the read (eval.json is JSON but no
\*                  mapping, the connection to the host broke)
MetricsOutcomes == {"ok", "unavailable", "exception"}

\* RevisLoop._run_loop: set_run_status completed, "Collect metrics", "Log metrics"
CollectMetrics(p, outcome, value) ==
    /\ procs[p].pc = "waited"
    /\ ~Failed(procs[p].result)
    /\ outcome /= "ok" => value = Absent
    /\ LET pr == procs[p] IN
       IF outcome = "unavailable"
       THEN FailurePath(p, runs, "top", None)
       ELSE IF outcome = "exception"
       THEN /\ UNCHANGED runs
            /\ sessions' = end_session(sessions, pr.sid, "error")
            /\ procs' = [procs EXCEPT ![p] = Raised(pr)]
       ELSE /\ runs' = log_metrics(runs, pr.run_id, value)
            /\ procs' = [procs EXCEPT ![p] =
                            [pr EXCEPT !.pc = "collected", !.primary = value]]
            /\ UNCHANGED sessions
    /\ UNCHANGED <<stop_signal, tmux, exit_file, executor_type, agent, guardrail, cost, tool_executor, llm, suggestions>>
    /\ TerminateCheckout(p)

\* a target check with strict comparisons
AchievedStrictly(target, minimize, primary_value) ==
    /\ target /= Absent
    /\ primary_value /= Absent
    /\ primary_value /= NaN
    /\ IF minimize THEN primary_value < target ELSE primary_value > target

\* RevisLoop._run_loop, "Check target achievement"; a comparison with NaN is false
Achieved(target, minimize, primary_value) ==
    /\ target /= Absent
    /\ primary_value /= Absent
    /\ primary_value /= NaN
    /\ IF minimize THEN primary_value <= target ELSE primary_value >= target

\* detect_nan_inf on the collected metric set
detect_nan_inf(primary_value) ==
    primary_value \in {NaN, Infinity}

\* GuardrailChecker.has_critical_violation: a triggered guardrail of severity error
has_critical_violation(nan_inf, diverged) ==
    nan_inf \/ diverged

\* MetricsAnalyzer.get_metric_history has a value older than this run's: only then
\* can detect_divergence see a current value beyond the multiple of the initial one
HasEarlierMetrics(rs, sid, rid) ==
    \E i \in 1 .. Len(rs) : i /= rid /\ rs[i].session_id = sid /\ rs[i].metrics

\* RevisLoop._run_loop, "Check target achievement" and "Run guardrails".
\* SQLite stores a NaN as NULL, and get_run_metrics cannot build a Metric from it:
\* get_metric_history raises.  diverged and plateau are what detect_divergence and
\* detect_plateau return on the session's metric history; neither runs when the
\* primary metric is Absent.
CheckTargetAndGuardrails(p, diverged, plateau) ==
    /\ procs[p].pc = "collected"
    /\ LET pr == procs[p] IN
       IF Achieved(pr.target, pr.minimize, pr.primary)
       THEN /\ ~diverged /\ ~plateau
            /\ sessions' = end_session(sessions, pr.sid, "target_achieved")
            /\ procs' = [procs EXCEPT ![p] = Terminated(pr, "target_achieved")]
       ELSE IF pr.primary = NaN
       THEN /\ ~diverged /\ ~plateau
            /\ sessions' = end_session(sessions, pr.sid, "error")
            /\ procs' = [procs EXCEPT ![p] = Raised(pr)]
       ELSE /\ pr.primary = Absent => (~diverged /\ ~plateau)
            /\ diverged => HasEarlierMetrics(runs, pr.sid, pr.run_id)
            /\ procs' = [procs EXCEPT ![p] =
                            [pr EXCEPT !.pc = "guarded",
                                       !.critical = has_critical_violation(
                                                       detect_nan_inf(pr.primary), diverged),
                                       !.plateau = plateau]]
            /\ UNCHANGED sessions
    /\ UNCHANGED <<runs, stop_signal, tmux, exit_file, executor_type, agent, guardrail, cost, tool_executor, llm, suggestions>>
    /\ TerminateCheckout(p)

\* a plateau check that also stops on a critical violation
PlateauOrCritical(critical, plateau) == critical \/ plateau

\* RevisLoop._run_loop, "Check plateau": the only guardrail that terminates
PlateauTerminates(critical, plateau) == plateau

\* RevisLoop._run_loop, "Check plateau", then the reset of the tool executor
CheckPlateau(p) ==
    /\ procs[p].pc = "guarded"
    /\ LET pr == procs[p] IN
       IF PlateauTerminates(pr.critical, pr.plateau)
       THEN /\ sessions' = end_session(sessions, pr.sid, "plateau")
            /\ procs' = [procs EXCEPT ![p] = Terminated(pr, "plateau")]
       ELSE /\ procs' = [procs EXCEPT ![p] =
                            \* "Reset tool executor state for this iteration",
                            \* with _run_output_dir = run_output_dir
                            [pr EXCEPT !.pc = "proposing", !.primary = Absent,
                                       !.plateau = FALSE,
                                       !.made_tool_calls = FALSE, !.changes = {},
                                       !.run_output_dir = pr.run_id]]
            /\ UNCHANGED sessions
    /\ UNCHANGED <<runs, stop_signal, tmux, exit_file, executor_type, agent, guardrail, cost, tool_executor, llm, suggestions>>
    /\ TerminateCheckout(p)

\* ToolExecutor.execute: the change request a tool call records
ChangeOf(tool) ==
    IF tool = "modify_config" THEN {"config"}
    ELSE IF tool = "set_next_command" THEN {"command"}
    ELSE IF tool = "request_code_change" THEN {"code"}
    ELSE {}

\* run_agent: the model answers with a tool call, which is executed
AgentToolCall(p, tool) ==
    /\ procs[p].pc \in {"proposing", "fixing"}
    /\ procs' = [procs EXCEPT ![p] =
                    [@ EXCEPT !.made_tool_calls = TRUE,
                              !.changes = @ \cup ChangeOf(tool)]]
    /\ UNCHANGED <<sessions, runs, stop_signal, tmux, exit_file, executor_type, agent, guardrail, cost, tool_executor, llm, suggestions, branch>>

\* ToolExecutor.tool_get_training_logs: the run whose train.log the tool reads
\* for process pr, 0 when it answers "Training logs not available"
tool_get_training_logs(pr) == pr.run_output_dir

\* an orchestrator without the "no changes" test
NeverNoChanges(changes) == FALSE

\* RevisLoop._run_loop, "Handle no changes (plateau)"
NoChanges(changes) == changes = {}

\* RevisLoop._run_loop: change_type of the iteration
ChangeType(changes) ==
    IF "code" \in changes THEN "code_handoff"
    ELSE IF "config" \in changes THEN "config"
    ELSE "cli_args"

\* RevisLoop._run_loop: `if has_config_changes or has_code_request:` commit and
\* attach the Decision
Commits(changes) == "config" \in changes \/ "code" \in changes

\* RevisLoop._run_loop: current_train_cmd after the propose step; it is set
\* before the loop and assigned again only under has_command_change
NextTrainCmd(train_cmd, changes) ==
    IF "command" \in changes THEN "override" ELSE train_cmd

\* RevisLoop._run_loop from the return of run_agent to the end of the iteration.
\* A command that ended on "no changes" keeps the agent's tool_calls_count > 0.
\*   raised:   the model client raised (every model of the fallback chain failed)
\*   escalate: the final message has an ESCALATE: line (parse_agent_response)
ProposeReturn(p, raised, escalate) ==
    /\ procs[p].pc = "proposing"
    /\ raised => ~escalate
    /\ LET pr == procs[p] IN
       IF raised
       THEN /\ sessions' = end_session(sessions, pr.sid, "error")
            /\ procs' = [procs EXCEPT ![p] = Raised(pr)]
            /\ UNCHANGED <<suggestions, runs>>
       ELSE IF escalate
       THEN /\ sessions' = end_session(sessions, pr.sid, "llm_escalation")
            /\ procs' = [procs EXCEPT ![p] = Terminated(pr, "llm_escalation")]
            /\ UNCHANGED <<suggestions, runs>>
       ELSE IF NoChanges(pr.changes)
       THEN /\ sessions' = end_session(sessions, pr.sid, "plateau")
            /\ procs' = [procs EXCEPT ![p] =
                            [Terminated(pr, "plateau")
                                EXCEPT !.result = "agent_returned",
                                       !.made_tool_calls = pr.made_tool_calls]]
            /\ UNCHANGED <<suggestions, runs>>
       ELSE /\ suggestions' = IF "code" \in pr.changes
                              THEN create_suggestion(suggestions, pr.sid, pr.run_id)
                              ELSE suggestions
            /\ sessions' = IF pr.btype = "runs"
                           THEN update_session_budget(sessions, pr.sid, pr.iteration)
                           ELSE sessions
            /\ runs' = IF Commits(pr.changes)
                       THEN attach_decision(runs, pr.run_id, ChangeType(pr.changes))
                       ELSE runs
            /\ procs' = [procs EXCEPT ![p] =
                            [NextIteration(pr) EXCEPT
                                !.train_cmd = NextTrainCmd(pr.train_cmd, pr.changes)]]
    /\ UNCHANGED <<stop_signal, tmux, exit_file, executor_type, agent, guardrail, cost, tool_executor, llm>>
    /\ TerminateCheckout(p)

\* RevisLoop._run_agent_for_fix: agent_result.files_modified is non-empty
FilesModified(changes) == changes /= {}

\* RevisLoop._run_loop: which failure path looks at agent_result.escalate
HonorsEscalate(result) == result /= "launch_error"

\* RevisLoop._run_loop from the return of _run_agent_for_fix to `continue`
FixReturn(p, raised, escalate) ==
    /\ procs[p].pc = "fixing"
    /\ raised => ~escalate
    /\ LET pr == procs[p] IN
       IF raised
       THEN /\ sessions' = end_session(sessions, pr.sid, "error")
            /\ procs' = [procs EXCEPT ![p] = Raised(pr)]
       ELSE IF escalate /\ HonorsEscalate(pr.result)
       THEN /\ sessions' = end_session(sessions, pr.sid, "llm_escalation")
            /\ procs' = [procs EXCEPT ![p] = Terminated(pr, "llm_escalation")]
       ELSE /\ procs' = [procs EXCEPT ![p] = NextIteration(pr)]
            /\ UNCHANGED sessions
    /\ runs' = IF ~raised /\ ~(escalate /\ HonorsEscalate(procs[p].result))
                  /\ FilesModified(procs[p].changes)
               THEN attach_decision(runs, procs[p].run_id, "code_patch")
               ELSE runs
    /\ UNCHANGED <<stop_signal, tmux, exit_file, executor_type, agent, guardrail, cost, tool_executor, llm, suggestions>>
    /\ TerminateCheckout(p)

\* RevisLoop.run / _resume: KeyboardInterrupt inside _run_loop; _terminate with
\* user_stop, then _cleanup_active_process kills the training it was waiting for.
Interrupt(p) ==
    /\ procs[p].pc \in LoopPcs
    /\ sessions' = end_session(sessions, procs[p].sid, "user_stop")
    /\ procs' = [procs EXCEPT ![p] = Terminated(@, "user_stop")]
    /\ tmux' = IF procs[p].pc = "waiting"
               THEN [tmux EXCEPT ![procs[p].sid] = FALSE] ELSE tmux
    /\ UNCHANGED <<runs, stop_signal, exit_file, executor_type, agent, guardrail, cost, tool_executor, llm, suggestions>>
    /\ TerminateCheckout(p)

\* The process is killed by a signal it cannot handle; nothing else changes.
Kill(p) ==
    /\ Alive(p)
    /\ procs' = [procs EXCEPT ![p] =
                    [Unborn EXCEPT !.pc = "killed", !.cmd = procs[p].cmd,
                                   !.sid = procs[p].sid]]
    /\ UNCHANGED <<sessions, runs, stop_signal, tmux, exit_file, executor_type, agent, guardrail, cost, tool_executor, llm, suggestions, branch>>

\* cli.stop
StopCmd ==
    /\ get_running_session(sessions) /= 0
    /\ ~stop_signal
    /\ stop_signal' = TRUE
    /\ UNCHANGED <<sessions, runs, procs, tmux, exit_file, executor_type, agent, guardrail, cost, tool_executor, llm, suggestions, branch>>

\* cli.delete of the session named n, up to and with store.delete_session.  The
\* command ends before the store is touched when no session has the name, or when
\* the session is running and --force was not given.
Delete(n, force) ==
    /\ session_name_exists(sessions, n)
    /\ LET sid == get_session_by_name(sessions, n) IN
       /\ sessions[sid].status = "running" => force
       /\ sessions' = delete_session(sessions, sid)
       /\ runs' = delete_session_runs(runs, sid)
       /\ suggestions' = delete_session_suggestions(suggestions, sid)
    /\ UNCHANGED <<stop_signal, procs, tmux, exit_file, executor_type, agent, guardrail, cost, tool_executor, llm, branch>>

\* The steps of a started process, under the inputs In
Step(p, In) ==
    \/ CliRunningCheck(p)
    \/ RunCreate(p)
    \/ \E e \in 0 .. MaxTime : PreemptionCheck(p, e)
    \/ \E sync_ok \in BOOLEAN : SyncAndCreateRun(p, sync_ok)
    \/ \E launch_ok \in BOOLEAN : Launch(p, launch_ok)
    \/ \E timed_out \in BOOLEAN : WaitReturn(p, timed_out)
    \/ HandleRunFailure(p)
    \/ \E value \in In.values : CollectMetrics(p, "ok", value)
    \/ \E outcome \in MetricsOutcomes \ {"ok"} : CollectMetrics(p, outcome, Absent)
    \/ \E diverged \in In.diverged, plateau \in In.plateau :
            CheckTargetAndGuardrails(p, diverged, plateau)
    \/ CheckPlateau(p)
    \/ \E tool \in In.tools : procs[p].pc = "proposing" /\ AgentToolCall(p, tool)
    \/ \E tool \in In.fix_tools : procs[p].pc = "fixing" /\ AgentToolCall(p, tool)
    \/ \E raised \in BOOLEAN, escalate \in BOOLEAN : ProposeReturn(p, raised, escalate)
    \/ \E raised \in BOOLEAN, escalate \in BOOLEAN : FixReturn(p, raised, escalate)
    \/ Interrupt(p)

Environment ==
    \/ \E s \in DOMAIN tmux, code \in {0, 1} : TrainingExit(s, code)
    \/ \E s \in DOMAIN tmux : TrainingLost(s)
    \/ StopCmd

\* The user issues commands one after the other: a command starts when no other
\* loop or resume process is alive.
Sequential == \A q \in Pids : ~Alive(q)

Next ==
    \/ \E p \in Pids, n \in Names, bt \in BudgetTypes, bv \in 1 .. MaxBudget,
          cfg \in FewInputs.configs :
            Sequential /\ StartLoop(p, n, bt, bv, cfg)
    \/ \E p \in Pids, n \in Names, cfg \in FewInputs.configs :
            Sequential /\ Resume(p, n, cfg)
    \/ \E p \in Pids : Step(p, FewInputs)
    \/ \E p \in Pids : Kill(p)
    \/ Environment

Spec == Init /\ [][Next]_vars

\* Two loop commands started by separate processes at the same time.
RacePids == {1, 2}

NextRace ==
    \/ \E p \in RacePids, n \in RaceNames, cfg \in FewInputs.configs :
            StartLoop(p, n, "runs", 1, cfg)
    \/ \E p \in RacePids : Step(p, FewInputs)
    \/ Environment

SpecRace == Init /\ [][NextRace]_vars

\* One loop command with a budget of runs, from its start to the end of its
\* session and the delete command that removes it, under every configuration,
\* metric value, tool and detector outcome.
NextIter ==
    \/ \E n \in Names, bv \in 1 .. MaxBudget, cfg \in AllInputs.configs :
            StartLoop(1, n, "runs", bv, cfg)
    \/ Step(1, AllInputs)
    \/ Kill(1)
    \/ Environment
    \/ \E n \in Names, force \in BOOLEAN : Sequential /\ Delete(n, force)

SpecIter == Init /\ [][NextIter]_vars

\* The loop command of SpecIter with an orchestrator that keeps running: the
\* poll loop of wait sleeps and looks again, so a wait that can return does.
SpecWait ==
    SpecIter /\ \A p \in Pids : WF_vars(\E timed_out \in BOOLEAN : WaitReturn(p, timed_out))

\* One loop command with a time budget, whose failed runs the agent is asked to
\* fix with every tool it has.
RetryInputs == [FewInputs EXCEPT !.fix_tools = Tools]

NextRetry ==
    \/ \E n \in Names, cfg \in RetryInputs.configs :
            StartLoop(1, n, "time", MaxTime, cfg)
    \/ Step(1, RetryInputs)
    \/ Environment

SpecRetry == Init /\ [][NextRetry]_vars

\* The commands of Spec, in a repository where the user has main or another
\* branch checked out.
SpecBranch == InitAnyBranch /\ [][Next]_vars

\* ------------------------------------------------------------------ agent tool calls

OrchestratorIdle ==
    UNCHANGED <<sessions, runs, stop_signal, procs, tmux, exit_file, executor_type, agent, guardrail, cost,
                suggestions, branch, llm>>

ReadFile(path) ==
    /\ tool_executor' = tool_read_file(tool_executor, path)
    /\ OrchestratorIdle

ListDirectory(path, recursive) ==
    /\ tool_executor' = tool_list_directory(tool_executor, path, recursive)
    /\ OrchestratorIdle

ModifyConfig(path, key, value) ==
    /\ Len(tool_executor.config_changes) < MaxChanges
    /\ tool_executor' = tool_modify_config(tool_executor, path, key, value)
    /\ OrchestratorIdle

\* The agent calls the path tools of one ToolExecutor, under every deny list of
\* at most MaxDeny patterns, with and without tomllib in the interpreter.
InitTools ==
    /\ InitStore /\ branch = "main" /\ llm = NoRequest
    /\ agent = NoAgent /\ guardrail = NoGuardrail /\ cost = NoCost
    /\ \E deny \in SUBSET DenyPatterns, tomllib \in BOOLEAN :
          /\ Cardinality(deny) <= MaxDeny
          /\ tool_executor = NewToolExecutor(deny, tomllib)

NextTools ==
    \/ \E path \in ToolPaths : ReadFile(path)
    \/ \E path \in ToolPaths, recursive \in BOOLEAN : ListDirectory(path, recursive)
    \/ \E path \in ToolPaths, key \in {"lr", "missing"}, value \in {"2", "x"} :
            ModifyConfig(path, key, value)

SpecTools == InitTools /\ [][NextTools]_vars

\* ------------------------------------------------------------------ completion requests

\* LLMClient.complete: one pass of `for i, model in enumerate(models_to_try)`,
\* the completion call returning (error "none") or raising
TryModel(error) ==
    /\ llm.status = "trying"
    /\ llm' =
         LET attempted == [llm EXCEPT !.tried = Append(@, [model |-> llm.i, error |-> error])]
         IN
         IF error = "none"
         THEN [attempted EXCEPT !.status = "returned", !.model_used = llm.i,
                                !.used_fallback = is_fallback(llm.i)]
         ELSE IF ~Caught(error)
         THEN [attempted EXCEPT !.status = "raised"]
         ELSE IF llm.i + 1 < llm.models
         THEN [attempted EXCEPT !.i = @ + 1]
         ELSE [attempted EXCEPT !.status = "all_failed"]
    /\ UNCHANGED <<sessions, runs, stop_signal, procs, tmux, exit_file, executor_type, agent, guardrail, cost,
                   suggestions, branch, tool_executor>>

InitLLM ==
    /\ InitStore /\ branch = "main" /\ tool_executor = NoToolExecutor
    /\ agent = NoAgent /\ guardrail = NoGuardrail /\ cost = NoCost
    /\ \E n \in 1 .. MaxModels : llm = NewRequest(n)

NextLLM ==
    \E error \in {"none"} \cup TransientErrors \cup FatalErrors : TryModel(error)

SpecLLM == InitLLM /\ [][NextLLM]_vars

\* SQLiteRunStore.get_orphaned_sessions
get_orphaned_sessions(ss) == {i \in 1 .. Len(ss) : Orphaned(ss, i)}

\* cli.status, show_status: what the status command prints for the store ss
show_status(ss) ==
    LET session == get_running_session(ss) IN
    IF session = 0
    THEN IF get_orphaned_sessions(ss) /= {}
         THEN [shows |-> "orphaned", sessions |-> get_orphaned_sessions(ss)]
         ELSE [shows |-> "no_active", sessions |-> {}]
    ELSE [shows |-> "session", sessions |-> {session}]

\* --------------------------------------------------------------- agent loop

\* parse_agent_response: the AgentResult fields read off the lines of text
parse_agent_response(text) ==
    [rationale |-> "RATIONALE" \in text,
     significant |-> "SIGNIFICANT" \in text,
     escalate |-> "ESCALATE" \in text]

\* run_agent: the messages before the first round trip
NewAgent(max_iterations) ==
    [NoAgent EXCEPT !.status = "running", !.max_iterations = max_iterations,
                    !.messages = <<[role |-> "system", content |-> {}],
                                   [role |-> "user", content |-> {}]>>]

\* run_agent: final_content = messages[-1].get("content", "")
final_content(messages) == messages[Len(messages)].content

\* The rest of the program while the agent loop runs
AgentIdle ==
    UNCHANGED <<sessions, runs, stop_signal, procs, tmux, exit_file, executor_type,
                suggestions, branch, tool_executor, llm, guardrail, cost>>

\* run_agent: one pass of `for iteration in range(max_iterations)`: the model
\* answers content, with one tool call (whose result is tool_result) or none;
\* and, when the loop ends with this pass, the code after it.
RoundTrip(tool_calls, content, tool_result) ==
    /\ agent.status = "running"
    /\ agent.iteration < agent.max_iterations
    /\ LET assistant == [role |-> "assistant", content |-> content]
           messages == IF tool_calls
                       THEN agent.messages \o
                                <<assistant, [role |-> "tool", content |-> tool_result]>>
                       ELSE Append(agent.messages, assistant)
           looped == [agent EXCEPT !.iteration = @ + 1, !.messages = messages,
                                   !.tool_calls_count = IF tool_calls THEN @ + 1 ELSE @]
       IN
       agent' = IF tool_calls /\ looped.iteration < agent.max_iterations
                THEN looped
                ELSE [looped EXCEPT !.status = "returned",
                                    !.result = parse_agent_response(final_content(messages))]
    /\ AgentIdle

\* One run_agent call, under every cap of at most MaxRoundTrips round trips
InitAgent ==
    /\ InitStore /\ branch = "main" /\ tool_executor = NoToolExecutor /\ llm = NoRequest
    /\ guardrail = NoGuardrail /\ cost = NoCost
    /\ \E max_iterations \in 1 .. MaxRoundTrips : agent = NewAgent(max_iterations)

NextAgent ==
    \E tool_calls \in BOOLEAN, content \in Texts, tool_result \in Texts :
        RoundTrip(tool_calls, content, tool_result)

SpecAgent == InitAgent /\ [][NextAgent]_vars

\* --------------------------------------------------------------- guardrails

\* Primary metric values of the runs of a session, and plateau thresholds
\* (fractions num/den; 1/100 is the default plateau_threshold)
PlateauValues == {-4, 0, 2, 3, 4}
Thresholds == {[num |-> 1, den |-> 100], [num |-> 1, den |-> 2]}

\* abs
Abs(x) == IF x < 0 THEN 0 - x ELSE x

\* min(values) if minimize else max(values), by a pass over the list
RECURSIVE best(_, _)
best(values, minimize) ==
    IF Len(values) = 1 THEN values[1]
    ELSE LET rest == best(Tail(values), minimize) IN
         IF minimize
         THEN (IF rest < values[1] THEN rest ELSE values[1])
         ELSE (IF rest > values[1] THEN rest ELSE values[1])

\* a detector that also triggers when the improvement equals the threshold
improvement_at_most(gain, best_before, threshold) ==
    IF best_before = 0 THEN 0 <= threshold.num
    ELSE gain * threshold.den <= threshold.num * Abs(best_before)

\* detect_plateau: `improvement < threshold`, improvement being
\* gain / abs(best_before) if best_before != 0 else 0
improvement_below(gain, best_before, threshold) ==
    IF best_before = 0 THEN 0 < threshold.num
    ELSE gain * threshold.den < threshold.num * Abs(best_before)

\* detect_plateau: GuardrailResult.triggered
detect_plateau(metric_history, threshold, n_runs, minimize) ==
    IF Len(metric_history) <= n_runs THEN FALSE
    ELSE LET n == Len(metric_history)
             recent == SubSeq(metric_history, n - n_runs + 1, n)
             best_before == best(SubSeq(metric_history, 1, n - n_runs), minimize)
             best_recent == best(recent, minimize)
             gain == IF minimize THEN best_before - best_recent
                     ELSE best_recent - best_before
         IN improvement_below(gain, best_before, threshold)

\* RunAnalyzer.get_metric_history: the primary metric of the runs that logged
\* one, oldest run first.  stored[k] is the primary metric logged for the k-th
\* run of the session, Absent when its metrics hold none.
get_metric_history(stored) == SelectSeq(stored, LAMBDA v : v /= Absent)

\* GuardrailChecker.check_eval_result: full_history = metric_history + [current_value]
full_history(metric_history, current_value) == Append(metric_history, current_value)

\* The rest of the program while the guardrails are evaluated
GuardrailIdle ==
    UNCHANGED <<sessions, runs, stop_signal, procs, tmux, exit_file, executor_type,
                suggestions, branch, tool_executor, llm, agent, cost>>

\* One call of detect_plateau on the history drawn by InitPlateau
DetectPlateau ==
    /\ guardrail.status = "input"
    /\ guardrail' = [guardrail EXCEPT
            !.status = "checked",
            !.triggered = detect_plateau(guardrail.history, guardrail.threshold,
                                         guardrail.n_runs, guardrail.minimize)]
    /\ GuardrailIdle

\* RevisLoop._run_loop, "Log metrics" to "Run guardrails", for a run whose
\* metrics hold the primary metric value (Absent: they hold none):
\* store.log_metrics, then analyzer.get_metric_history, then check_eval_result
\* with its plateau detection.
EvalRun(value) ==
    /\ guardrail.status = "session"
    /\ Len(guardrail.stored) < MaxHistory
    /\ LET stored == Append(guardrail.stored, value)
           metric_history == get_metric_history(stored)
       IN
       guardrail' =
           IF value = Absent
           THEN [guardrail EXCEPT !.stored = stored, !.history = << >>,
                                  !.triggered = FALSE]
           ELSE [guardrail EXCEPT
                    !.stored = stored,
                    !.history = full_history(metric_history, value),
                    !.triggered = detect_plateau(full_history(metric_history, value),
                                                 guardrail.threshold, guardrail.n_runs,
                                                 guardrail.minimize)]
    /\ GuardrailIdle

\* detect_plateau on every history of at most MaxHistory values, with
\* plateau_runs from 1 to MaxPlateauRuns
InitPlateau ==
    /\ InitStore /\ branch = "main" /\ tool_executor = NoToolExecutor /\ llm = NoRequest
    /\ agent = NoAgent /\ cost = NoCost
    /\ \E h \in UNION {[1 .. k -> PlateauValues] : k \in 0 .. MaxHistory}, t \in Thresholds,
          n \in 1 .. MaxPlateauRuns, m \in BOOLEAN :
          guardrail = [NoGuardrail EXCEPT !.status = "input", !.history = h,
                                          !.threshold = t, !.n_runs = n, !.minimize = m]

SpecPlateau == InitPlateau /\ [][DetectPlateau]_vars

\* The guardrail evaluation of the runs of one session, run after run
InitGuard ==
    /\ InitStore /\ branch = "main" /\ tool_executor = NoToolExecutor /\ llm = NoRequest
    /\ agent = NoAgent /\ cost = NoCost
    /\ \E t \in Thresholds, n \in 1 .. MaxPlateauRuns, m \in BOOLEAN :
          guardrail = [NoGuardrail EXCEPT !.status = "session", !.threshold = t,
                                          !.n_runs = n, !.minimize = m]

NextGuard == \E value \in PlateauValues \cup {Absent} : EvalRun(value)

SpecGuard == InitGuard /\ [][NextGuard]_vars

\* --------------------------------------------------------------- model cost

\* The rest of the program while the cost of a session is followed
CostIdle ==
    UNCHANGED <<sessions, runs, stop_signal, procs, tmux, exit_file, executor_type,
                suggestions, branch, tool_executor, llm, agent, guardrail>>

\* LLMClient.complete, "Update totals": self.total_cost += cost, for one call
\* the agent loop makes
Complete(call_cost) ==
    /\ cost.status = "running"
    /\ cost.total_cost + call_cost <= MaxCost
    /\ cost' = [cost EXCEPT !.total_cost = @ + call_cost]
    /\ CostIdle

\* RevisLoop._run_loop / _run_agent_for_fix, after run_agent has returned:
\* store.update_session_cost(session.id, self.llm.total_cost), an UPDATE that
\* sets llm_cost_usd to its argument
UpdateSessionCost ==
    /\ cost.status = "running"
    /\ cost' = [cost EXCEPT !.llm_cost_usd = cost.total_cost]
    /\ CostIdle

\* RevisLoop._terminate: the orchestrator process ends, the session row stays
OrchestratorEnds ==
    /\ cost.status = "running"
    /\ cost' = [cost EXCEPT !.status = "ended"]
    /\ CostIdle

\* resume_loop: a new RevisLoop, whose __init__ makes a new LLMClient
\* (total_cost = 0.0), goes on with the session
ResumeOrchestrator ==
    /\ cost.status = "ended"
    /\ cost' = [cost EXCEPT !.status = "running", !.total_cost = 0]
    /\ CostIdle

\* One session from the loop command on, with the resume commands after it
InitCost ==
    /\ InitStore /\ branch = "main" /\ tool_executor = NoToolExecutor /\ llm = NoRequest
    /\ agent = NoAgent /\ guardrail = NoGuardrail
    /\ cost = [NoCost EXCEPT !.status = "running"]

NextCost ==
    \/ \E call_cost \in 1 .. 2 : Complete(call_cost)
    \/ UpdateSessionCost
    \/ OrchestratorEnds
    \/ ResumeOrchestrator

SpecCost == InitCost /\ [][NextCost]_vars

\* ------------------------------------------------------------------ claims

RunsOf(rs, s) == {i \in 1 .. Len(rs) : rs[i].session_id = s}
FailedRuns(rs, s) == {i \in RunsOf(rs, s) : rs[i].status = "failed"}

\* C1: when the store holds a running session, create_session refuses: no row is
\* added to the sessions table in a state where some row has status running.
C1_CreateSessionRefusesWhileRunning ==
    [][RunningIds(sessions) /= {} => Len(sessions') = Len(sessions)]_vars

\* C2: under every interleaving of two loop commands the store never holds two
\* sessions with status running.
C2_AtMostOneRunning ==
    Cardinality(RunningIds(sessions)) <= 1

\* C3: the iteration numbers of a session's runs are exactly 1..k, k the number of
\* its runs, with no gap and no duplicate.
C3_IterationsContiguous ==
    \A s \in 1 .. Len(sessions) :
        /\ {runs[i].iteration_number : i \in RunsOf(runs, s)}
              = 1 .. Cardinality(RunsOf(runs, s))
        /\ \A i, j \in RunsOf(runs, s) :
              runs[i].iteration_number = runs[j].iteration_number => i = j

\* C4: every run that becomes failed lowers the session's retry budget by exactly
\* one; when the budget reaches zero the session ends at once with reason
\* retry_exhaustion and its orchestrator launches nothing more; a session driven by
\* its loop command ends with retry_exhaustion exactly on its third failed run,
\* whatever completed runs lie in between.
C4_FailureStep ==
    \A s \in 1 .. Len(sessions) :
        FailedRuns(runs', s) /= FailedRuns(runs, s) =>
            /\ Cardinality(FailedRuns(runs', s)) = Cardinality(FailedRuns(runs, s)) + 1
            /\ sessions'[s].retry_budget = sessions[s].retry_budget - 1
            /\ IF sessions'[s].retry_budget <= 0
               THEN /\ sessions'[s].termination_reason = "retry_exhaustion"
                    /\ sessions'[s].status /= "running"
                    /\ \A p \in Pids : procs'[p].sid = s => procs'[p].pc \notin LoopPcs
                    /\ tmux'[s] = tmux[s]
               ELSE sessions'[s].termination_reason /= "retry_exhaustion"

C4_FreshSession ==
    \A p \in Pids :
        (procs[p].cmd = "loop" /\ procs[p].sid /= 0) =>
            LET f == Cardinality(FailedRuns(runs, procs[p].sid)) IN
            /\ f + sessions[procs[p].sid].retry_budget = DefaultRetryBudget
            /\ procs[p].pc \in LoopPcs => f < DefaultRetryBudget
            /\ procs[p].pc = "done" =>
                  (procs[p].reason = "retry_exhaustion" <=> f = DefaultRetryBudget)

C5_Step ==
    /\ (stop_signal /\ ~stop_signal') =>
          \E p \in Pids :
             \/ /\ procs[p].pc = "top" /\ procs'[p].pc = "done"
                /\ sessions'[procs[p].sid].termination_reason = "user_stop"
                /\ sessions'[procs[p].sid].status = "stopped"
                /\ runs' = runs /\ tmux' = tmux
             \/ /\ procs[p].pc \in {"unborn", "cli_run_ok"}
                /\ procs'[p].pc /= procs[p].pc
    /\ \A p \in Pids :
          (stop_signal /\ procs[p].pc = "top" /\ procs'[p].pc /= "top") =>
             /\ procs'[p].pc \in {"done", "killed"}
             /\ procs'[p].pc = "done" => procs'[p].reason = "user_stop"
             /\ runs' = runs /\ tmux' = tmux
    /\ \A p \in Pids :
          (stop_signal /\ procs[p].pc = "waiting" /\ procs'[p].pc /= "waiting") =>
             \/ procs'[p].pc \in {"done", "killed"}
             \/ /\ procs'[p].pc = "waited" /\ stop_signal'
                /\ procs'[p].result \in
                      (IF tmux[procs[p].sid] THEN {"timeout"}
                       ELSE {"exit0", "exit1", "unavailable"})

C5_StopAtBoundary ==
    [][C5_Step]_vars

C5_Witness ==
    \E p \in Pids :
        stop_signal /\ procs[p].pc = "waited" /\ procs[p].result = "exit0"

\* C6: a resumed run-budget session with value V and used U starts exactly V - U
\* further iterations before it ends with budget_exhausted (the resume command
\* holds V - U, as read from the store when it started, in bvalue).
C6_ResumeRunsRemaining ==
    [][\A p \in Pids :
          (/\ procs[p].cmd = "resume" /\ procs[p].btype = "runs"
           /\ procs[p].pc = "top" /\ procs'[p].pc = "done"
           /\ procs'[p].reason = "budget_exhausted") =>
             procs[p].iteration - procs[p].entry_iteration
                = procs[p].bvalue
      ]_vars

\* C7: resume accepts a session left running by a killed orchestrator and enters
\* the iteration loop at the preemption check.
C7_OrphanResumable ==
    [][\A p \in Pids :
          (/\ procs[p].pc = "unborn" /\ procs'[p].cmd = "resume"
           /\ procs'[p].sid /= 0
           /\ Orphaned(sessions, procs'[p].sid)) =>
             procs'[p].pc = "top"
      ]_vars

\* C8: a run-budget session ended with budget_exhausted has
\* iteration_count >= budget value.
C8_RunBudgetExhausted ==
    \A s \in 1 .. Len(sessions) :
        (sessions[s].budget_type = "runs"
            /\ sessions[s].termination_reason = "budget_exhausted") =>
            sessions[s].iteration_count >= sessions[s].budget_value

\* C9: a time-budget session ended with budget_exhausted has
\* budget used >= budget value.
C9_TimeBudgetExhausted ==
    \A s \in 1 .. Len(sessions) :
        (sessions[s].budget_type = "time"
            /\ sessions[s].termination_reason = "budget_exhausted") =>
            sessions[s].budget_used >= sessions[s].budget_value

\* C10: once the orchestrator of a loop or resume command has terminated its
\* session, the stored session has status completed, failed or stopped, a
\* termination reason and an end time.
C10_TerminatedSession ==
    \A p \in Pids :
        procs[p].pc = "done" =>
            /\ sessions[procs[p].sid].status \in {"completed", "failed", "stopped"}
            /\ sessions[procs[p].sid].termination_reason /= None
            /\ sessions[procs[p].sid].termination_reason = procs[p].reason
            /\ sessions[procs[p].sid].ended_at

C10_Witness ==
    \E p \in Pids :
        /\ procs[p].cmd = "resume" /\ procs[p].pc = "done"
        /\ sessions[procs[p].sid].termination_reason = "budget_exhausted"
        /\ sessions[procs[p].sid].ended_at

\* C11: after delete_session on a session succeeded, no row of the runs table,
\* of the tables keyed by run (metrics) or of the suggestions table references the
\* session or one of its runs.
C11_CascadeTotal ==
    /\ \A i \in 1 .. Len(runs) :
          runs[i].session_id /= 0 => sessions[runs[i].session_id].status /= "deleted"
    /\ \A i \in 1 .. Len(runs) :
          runs[i].status = "deleted" => ~runs[i].metrics
    /\ \A g \in suggestions :
          /\ sessions[g.session_id].status /= "deleted"
          /\ runs[g.run_id].status /= "deleted"

\* C12: once create_session(N) has succeeded, session_name_exists(N) is true in
\* every later state: no step of the store, end_session and delete_session
\* included, takes a name out of the sessions table.
C12_NameForever ==
    [][\A n \in Names \cup RaceNames :
          session_name_exists(sessions, n) => session_name_exists(sessions', n)
      ]_vars

\* C13: no two sessions of the store have the same name.  create_session with a
\* name some session holds fails on the uniqueness constraint and leaves the
\* sessions table as it was, also when the two loop commands passed the
\* name-conflict check of the CLI at the same time.
C13_UniqueNames ==
    \A i, j \in 1 .. Len(sessions) :
        (sessions[i].name /= None /\ sessions[i].name = sessions[j].name) => i = j

C13_CreateStep ==
    \A p \in Pids :
        (procs[p].pc = "cli_run_ok" /\ procs'[p].pc /= "cli_run_ok") =>
            IF session_name_exists(sessions, procs[p].name)
            THEN /\ sessions' = sessions
                 /\ procs'[p].pc = "refused"
                 /\ procs'[p].result = "integrity_error"
            ELSE /\ Len(sessions') = Len(sessions) + 1
                 /\ sessions'[Len(sessions')].name = procs[p].name
                 /\ \A i \in 1 .. Len(sessions) : sessions'[i] = sessions[i]

C13_NameUnique ==
    []C13_UniqueNames /\ [][C13_CreateStep]_vars

C13_Witness ==
    \E p, q \in Pids :
        /\ p /= q
        /\ procs[p].pc = "refused" /\ procs[p].result = "integrity_error"
        /\ procs[q].sid /= 0 /\ sessions[procs[q].sid].name = procs[p].name
        /\ Len(sessions) = 1

\* C14: after a run whose metrics were collected the session ends with
\* target_achieved if and only if a target is configured and the primary metric is
\* at most the target when minimizing, at least the target when maximizing (the
\* user's interrupt and a kill aside).  At that termination the run is completed,
\* its metrics are in the store, and the step comes straight from the target
\* check: no agent was called and nothing else was written in the iteration.
C14_TargetMet(pr) ==
    /\ pr.target /= Absent
    /\ pr.primary \notin {Absent, NaN}
    /\ (pr.minimize => pr.primary <= pr.target)
    /\ (~pr.minimize => pr.primary >= pr.target)

C14_Step ==
    \A p \in Pids :
        /\ (/\ procs[p].pc = "collected" /\ procs'[p].pc /= "collected"
            /\ procs'[p].pc /= "killed"
            /\ ~(procs'[p].pc = "done" /\ procs'[p].reason = "user_stop")) =>
              ((procs'[p].pc = "done" /\ procs'[p].reason = "target_achieved")
                  <=> C14_TargetMet(procs[p]))
        /\ (/\ procs[p].pc /= "done"
            /\ procs'[p].pc = "done" /\ procs'[p].reason = "target_achieved") =>
              /\ procs[p].pc = "collected"
              /\ runs[procs[p].run_id].status = "completed"
              /\ runs[procs[p].run_id].metrics
              /\ runs' = runs /\ suggestions' = suggestions
              /\ sessions'[procs[p].sid].status = "completed"
              /\ sessions'[procs[p].sid].termination_reason = "target_achieved"

C14_TargetAchieved ==
    [][C14_Step]_vars

C14_Witness ==
    \E p \in Pids :
        /\ procs[p].pc = "done" /\ procs[p].reason = "target_achieved"
        /\ sessions[procs[p].sid].status = "completed"
        /\ sessions[procs[p].sid].iteration_count = 2
        /\ \E i \in RunsOf(runs, procs[p].sid) :
              runs[i].iteration_number = 2 /\ runs[i].status = "completed"
                 /\ runs[i].metrics

\* C15: when a run exits with code 0 and its metrics cannot be collected, the
\* whole failure path runs: the run is marked failed, the retry budget is
\* decremented, and with budget left the agent is invoked in fix mode before the
\* next iteration.
C15_MetricsFailurePath ==
    [][\A p \in Pids :
          (/\ procs[p].pc = "waited" /\ procs[p].result = "exit0"
           /\ procs'[p].pc \notin {"waited", "killed"}
           /\ runs'[procs[p].run_id].status = "failed") =>
             /\ sessions'[procs[p].sid].retry_budget
                   = sessions[procs[p].sid].retry_budget - 1
             /\ sessions'[procs[p].sid].retry_budget > 0 => procs'[p].pc = "fixing"
      ]_vars

\* C16: a result file that is JSON without a top-level "metrics" mapping counts as
\* metrics unavailable: no run is left completed with an empty metric set on the
\* way to the propose step.
C16_NoEmptyMetricSet ==
    \A p \in Pids :
        procs[p].pc \in {"collected", "guarded", "proposing"} =>
            ~(runs[procs[p].run_id].status = "completed"
                 /\ ~runs[procs[p].run_id].metrics)

\* C17: when every model of the fallback chain fails during an agent invocation,
\* the orchestrator treats it as a failed run (retry budget decremented, loop goes
\* on): no agent invocation, propose or fix, ends the session with reason error.
C17_AgentFailureIsRunFailure ==
    [][\A p \in Pids :
          (procs[p].pc \in {"proposing", "fixing"} /\ procs'[p].pc = "done") =>
             procs'[p].reason /= "error"
      ]_vars

C19_EscalationOnlyFromPropose ==
    [][\A p \in Pids :
          (/\ procs[p].pc /= "done" /\ procs'[p].pc = "done"
           /\ procs'[p].reason = "llm_escalation") =>
             /\ procs[p].pc = "proposing"
             /\ runs[procs[p].run_id].status = "completed"
      ]_vars

\* C20: a triggered NaN/Inf or divergence detector never ends the session by
\* itself: with a critical violation and no plateau the orchestrator goes on from
\* the plateau check to the propose step, and the plateau check ends the session
\* only on a triggered plateau detector, with reason plateau.
C20_Step ==
    \A p \in Pids :
        /\ (/\ procs[p].pc = "guarded" /\ procs[p].critical /\ ~procs[p].plateau
            /\ procs'[p].pc \notin {"guarded", "killed"}
            /\ ~(procs'[p].pc = "done" /\ procs'[p].reason = "user_stop")) =>
              /\ procs'[p].pc = "proposing" /\ procs'[p].critical
              /\ sessions' = sessions
        /\ (/\ procs[p].pc = "guarded" /\ procs'[p].pc = "done"
            /\ procs'[p].reason /= "user_stop") =>
              procs[p].plateau /\ procs'[p].reason = "plateau"

C20_CriticalGoesOn ==
    [][C20_Step]_vars

C20_Witness ==
    \E p \in Pids :
        /\ procs[p].pc = "proposing" /\ procs[p].critical
        /\ procs[p].made_tool_calls
        /\ sessions[procs[p].sid].status = "running"

\* C21: every session that ended with reason retry_exhaustion has stored status
\* failed.
C21_RetryExhaustionFailed ==
    \A s \in 1 .. Len(sessions) :
        sessions[s].termination_reason = "retry_exhaustion" =>
            sessions[s].status = "failed"

\* C25: after the orchestrator of a loop or resume command has terminated its
\* session, the checked-out branch is the one that was checked out when the
\* command was invoked.
C25_BranchRestored ==
    [][\A p \in Pids :
          (procs[p].pc \in LoopPcs /\ procs'[p].pc = "done") =>
             branch' = procs[p].start_branch
      ]_vars

\* The action types the Decision of an iteration can carry
C22_ActionTypes == {"config", "code_handoff", "cli_args"}

\* C22: when a fresh session has ended with retry_exhaustion after three failed
\* runs, each of the three failed runs has a Decision row whose action type is
\* config, code_handoff or cli_args.
C22_DecisionPerFailedRun ==
    \A s \in 1 .. Len(sessions) :
        (sessions[s].termination_reason = "retry_exhaustion"
            /\ Cardinality(FailedRuns(runs, s)) = DefaultRetryBudget) =>
            \A i \in FailedRuns(runs, s) : runs[i].decision \in C22_ActionTypes

\* C23: a propose step in which the agent did not escalate and made at least
\* one change (the only propose step after which the loop goes on to the next
\* iteration) leaves a Decision row on the run of that iteration.
C23_DecisionOnEveryChange ==
    [][\A p \in Pids :
          (procs[p].pc = "proposing" /\ procs'[p].pc = "top") =>
             runs'[procs[p].run_id].decision \in C22_ActionTypes
      ]_vars

\* C24: an iteration in which set_next_command was not called is followed by an
\* iteration that launches the configured command: an override lasts for one
\* iteration only.
C24_OverrideOneIteration ==
    [][\A p \in Pids :
          (procs[p].pc \in LoopPcs /\ procs[p].pc /= "top" /\ procs'[p].pc = "top"
              /\ "command" \notin procs[p].changes) =>
             procs'[p].train_cmd = "configured"
      ]_vars

\* C30: the status of a run changes only from running to completed or from
\* running to failed; a run that is completed or failed keeps its status.
C30_RunStatusFinal ==
    [][\A i \in 1 .. Len(runs) :
          (runs'[i].status /= runs[i].status /\ runs'[i] /= DeletedRun) =>
             /\ runs[i].status = "running"
             /\ runs'[i].status \in {"completed", "failed"}
      ]_vars

C29_Step ==
    \A p \in Pids :
        (procs[p].pc = "waiting" /\ procs'[p].pc = "waited") =>
            LET s == procs[p].sid
                res == procs'[p].result
            IN
            /\ ~tmux'[s]
            /\ IF ~tmux[s]
               THEN IF exit_file /= << >>
                    THEN /\ res = (IF Head(exit_file) = 0 THEN "exit0" ELSE "exit1")
                         /\ Failed(res) <=> Head(exit_file) /= 0
                    ELSE res = "unavailable" /\ Failed(res)
               ELSE res = "timeout" /\ Failed(res)

\* C29: a wait with a timeout always returns.  When the session has ended and
\* the sentinel holds an exit code it returns that code, failed exactly when the
\* code is not zero; when the session has ended without a sentinel it returns
\* the failure "exit code unavailable"; otherwise it returns a timeout failure
\* and has killed the session.  The session is not running when wait returns.
C29_WaitReturns ==
    /\ [][C29_Step]_vars
    /\ \A p \in Pids : (procs[p].pc = "waiting") ~> (procs[p].pc /= "waiting")

C29_Witness ==
    \E p \in Pids :
        /\ procs[p].pc = "waited"
        /\ procs[p].result = "timeout"
        /\ ~tmux[procs[p].sid]

\* C26: a call of a path tool (read_file, list_directory, modify_config) whose
\* path matches a deny pattern is answered with "Access denied", lists nothing
\* and leaves every file as it was.
C26_DenySetTotal ==
    [][(tool_executor' /= tool_executor
            /\ is_denied(tool_executor'.deny_patterns, tool_executor'.path)) =>
          /\ tool_executor'.answer = "Access denied"
          /\ tool_executor'.listing = {}
          /\ tool_executor'.files = tool_executor.files
      ]_vars

\* C27: a modify_config call that does not write the file (its answer is not
\* "Modified") leaves config_changes as it was, so has_config_changes stays
\* false when nothing was written.
C27_UnwrittenNotRecorded ==
    [][(tool_executor' /= tool_executor
            /\ tool_executor'.tool = "modify_config"
            /\ tool_executor'.answer /= "Modified") =>
          /\ tool_executor'.config_changes = tool_executor.config_changes
          /\ has_config_changes(tool_executor') = has_config_changes(tool_executor)
      ]_vars

C28_Attempts ==
    LET n == Len(llm.tried)
        EarlierTransient == \A k \in 1 .. n - 1 : llm.tried[k].error \in TransientErrors
    IN
    /\ n <= llm.models
    /\ \A k \in 1 .. n : llm.tried[k].model = k - 1
    /\ llm.status = "trying" =>
          /\ n < llm.models /\ llm.i = n
          /\ \A k \in 1 .. n : llm.tried[k].error \in TransientErrors
    /\ llm.status = "returned" =>
          /\ n >= 1 /\ llm.tried[n].error = "none" /\ EarlierTransient
          /\ llm.model_used = n - 1
          /\ llm.used_fallback <=> llm.model_used /= 0
    /\ llm.status = "raised" =>
          /\ n >= 1 /\ llm.tried[n].error \in FatalErrors /\ EarlierTransient
    /\ llm.status = "all_failed" =>
          /\ n = llm.models
          /\ \A k \in 1 .. n : llm.tried[k].error \in TransientErrors

\* C28: a completion request tries the models in the order primary, first
\* fallback, second fallback, each at most once.  It returns the first
\* successful response, used_fallback being true exactly when the answering
\* model is not the primary; a transient failure moves on to the next model; an
\* authentication or bad-request failure ends the request at once; the request
\* fails with "All models failed" only when every model has failed; and a
\* request that has ended tries no further model.
C28_FallbackOrder ==
    /\ []C28_Attempts
    /\ [][llm.status /= "trying" => llm' = llm]_vars

C28_Witness ==
    /\ llm.status = "returned"
    /\ llm.used_fallback
    /\ Len(llm.tried) = 2
    /\ llm.tried[1].error = "RateLimitError"

\* C33: while an orchestrator started by loop or by resume is iterating on a
\* session, the stored status of that session is running.
C33_IteratingIsRunning ==
    \A p \in Pids :
        procs[p].pc \in LoopPcs => sessions[procs[p].sid].status = "running"

\* C31: whenever the store holds an orphaned session (status running, holder
\* process not alive), the status command reports that session as orphaned.
C31_StatusFlagsOrphans ==
    \A i \in get_orphaned_sessions(sessions) :
        /\ show_status(sessions).shows = "orphaned"
        /\ i \in show_status(sessions).sessions

\* C38: when wait reports an exit code, the sentinel it read holds the one line
\* written by the command of the launch waited for and no line of an earlier
\* command, so the code reported is the code of that launch.
C38_OwnExitCode ==
    [][\A p \in Pids :
          (procs[p].pc = "waiting" /\ procs'[p].pc = "waited"
              /\ procs'[p].result \in {"exit0", "exit1"}) =>
             Len(exit_file) = 1
      ]_vars

\* C37: a next-command override set by the agent in an error-fix invocation is
\* the command of the following iteration.
C37_FixOverrideLaunched ==
    [][\A p \in Pids :
          (procs[p].pc = "fixing" /\ procs'[p].pc = "top"
              /\ "command" \in procs[p].changes) =>
             procs'[p].train_cmd = "override"
      ]_vars

\* The loop command of SpecIter run by a process that is given the processor
\* until it ends: every step of _run_loop that can be taken is taken, a wait
\* and an agent invocation among them.
SpecLive == SpecIter /\ WF_vars(Step(1, AllInputs))

C40_AtMostVRuns ==
    \A s \in 1 .. Len(sessions) :
        sessions[s].budget_type = "runs" =>
            Cardinality(RunsOf(runs, s)) <= sessions[s].budget_value

C40_Terminates ==
    (procs[1].pc \in LoopPcs) ~>
        (\/ procs[1].pc = "killed"
         \/ /\ procs[1].sid \in 1 .. Len(sessions)
            /\ sessions[procs[1].sid].status /= "running")

\* C40: a session started by the loop command with a budget of V runs never has
\* more than V runs, and, unless its process is killed, a process that keeps
\* taking its steps (every wait and every agent invocation returns) brings the
\* session to a terminated status.
C40_RunBudgetTerminates == []C40_AtMostVRuns /\ C40_Terminates

C40_Witness ==
    \E s \in 1 .. Len(sessions) :
        /\ sessions[s].budget_type = "runs"
        /\ sessions[s].budget_value = MaxBudget
        /\ Cardinality(RunsOf(runs, s)) = sessions[s].budget_value
        /\ sessions[s].termination_reason = "budget_exhausted"

\* C36: whenever the agent can call get_training_logs, in a propose step or in
\* an error-fix step, a log the tool reads is the train.log of the run of the
\* current iteration, never the log of an earlier run.
C36_LogsOfCurrentRun ==
    \A p \in Pids :
        (procs[p].pc \in {"proposing", "fixing"}
            /\ tool_get_training_logs(procs[p]) /= 0) =>
            tool_get_training_logs(procs[p]) = procs[p].run_id

C35_LastAssistant ==
    LET Assistants == {k \in 1 .. Len(agent.messages) : agent.messages[k].role = "assistant"}
    IN agent.messages[CHOOSE k \in Assistants : \A j \in Assistants : j <= k]

\* C35: the rationale, significance flag and escalation flag run_agent returns
\* are parsed from the text of the last assistant message, also when the cap
\* of round trips is reached while the model still calls tools: the text of
\* the last tool result is not parsed.
C35_ParsedFromAssistant ==
    agent.status = "returned" =>
        agent.result = parse_agent_response(C35_LastAssistant.content)

C32_Recent ==
    {guardrail.history[i] :
        i \in (Len(guardrail.history) - guardrail.n_runs + 1) .. Len(guardrail.history)}

C32_Before ==
    {guardrail.history[i] : i \in 1 .. (Len(guardrail.history) - guardrail.n_runs)}

C32_Best(S) ==
    IF guardrail.minimize
    THEN CHOOSE x \in S : \A y \in S : x <= y
    ELSE CHOOSE x \in S : \A y \in S : x >= y

C32_Expected ==
    /\ Len(guardrail.history) > guardrail.n_runs
    /\ LET bb == C32_Best(C32_Before)
           br == C32_Best(C32_Recent)
           t == guardrail.threshold
       IN
       IF bb = 0 THEN 0 < t.num
       ELSE IF guardrail.minimize
       THEN (bb - br) * t.den < t.num * (IF bb < 0 THEN 0 - bb ELSE bb)
       ELSE (br - bb) * t.den < t.num * (IF bb < 0 THEN 0 - bb ELSE bb)

\* C32: detect_plateau(history, threshold, N, minimize) triggers exactly when
\* the history has more than N entries and the fractional improvement of the
\* best of the last N entries over the best of the entries before them (min
\* when minimizing, max otherwise; improvement 0 when the earlier best is 0)
\* is below the threshold.
C32_PlateauIff ==
    guardrail.status = "checked" => (guardrail.triggered <=> C32_Expected)

C32_Witness ==
    /\ guardrail.status = "checked" /\ guardrail.triggered
    /\ ~guardrail.minimize
    /\ Len(guardrail.history) = guardrail.n_runs + 2
    /\ C32_Best(C32_Before) /= 0
    /\ C32_Best(C32_Recent) > C32_Best(C32_Before)

\* C34: the history the plateau detector is evaluated on after run k holds the
\* primary metric of each metric-bearing run 1..k exactly once, in iteration
\* order.
C34_HistoryOncePerRun ==
    (guardrail.status = "session" /\ guardrail.history /= << >>) =>
        guardrail.history = SelectSeq(guardrail.stored, LAMBDA v : v /= Absent)

\* C39: the cumulative model cost stored on a session never decreases, also
\* when the session is resumed by a new orchestrator process.
C39_CostNeverDecreases ==
    [][cost'.llm_cost_usd >= cost.llm_cost_usd]_vars

====
